---- MODULE Spec2Model ----
(***************************************************************************)
(* Model of the two scripts of ai-workflow-platform:                       *)
(*   script/email-router.py   parse -> classify -> ledger -> dispatch      *)
(*   agentcore-demo/agent.py  the async agent entrypoint `invoke`          *)
(*                                                                         *)
(* Python text is a sequence of tokens (a token stands for one character   *)
(* or for one fixed run of characters such as a header name).  Python's    *)
(* None, a missing dict key and an unbound variable are reserved one-token *)
(* sequences that no text contains.                                        *)
(***************************************************************************)
EXTENDS Integers, Sequences, FiniteSets, TLC

VARIABLES
    stdin,        \* the text waiting on standard input
    pc,           \* position of the email-router main block
    raw_email,    \* main: raw_email
    email_data,   \* main: email_data
    request,      \* the HTTP requests issued by requests.post, in order
    response,     \* the HTTP response object held by classify_email
    routing,      \* main: routing
    result,       \* main: result
    stdout,       \* the lines printed so far
    error,        \* the uncaught exception that ended the process, or NoError
    stages,       \* the functions entered so far, in order
    inv,          \* the invocations of the agent entrypoint
    agents,       \* the Agent objects constructed so far: each one's messages
    calls         \* the calls the hosted model has received, in order

vars == <<stdin, pc, raw_email, email_data, request, response, routing,
          result, stdout, error, stages, inv, agents, calls>>

routerVars == <<stdin, pc, raw_email, email_data, request, response, routing,
                result, stdout, error, stages>>

----------------------------------------------------------------------------
(* Bounds *)

MaxStdinLines == 4
MaxLines == 4
MaxInvocations == 3

----------------------------------------------------------------------------
(* Python values *)

None == <<"<None>">>
Absent == <<"<absent>">>
Unbound == <<"<unbound>">>
NoError == "none"
NL == "NL"
SP == " "
COLON == ":"

\* str(v) as an f-string placeholder renders it
Str(v) == IF v = None THEN <<"N", "o", "n", "e">> ELSE v

RECURSIVE Concat(_)
Concat(ss) == IF ss = <<>> THEN <<>> ELSE Head(ss) \o Concat(Tail(ss))

IsSubstring(sub, s) ==
    \E i \in 0..(Len(s) - Len(sub)) : SubSeq(s, i + 1, i + Len(sub)) = sub

\* the index of the first occurrence of token t in s, 0 when there is none
RECURSIVE FindFrom(_, _, _)
FindFrom(s, t, i) ==
    IF i > Len(s) THEN 0
    ELSE IF s[i] = t THEN i
    ELSE FindFrom(s, t, i + 1)

Find(s, t) == FindFrom(s, t, 1)

\* str.splitlines(keepends=True) for the one line terminator of the model
RECURSIVE SplitLines(_)
SplitLines(s) ==
    IF s = <<>> THEN <<>>
    ELSE LET k == Find(s, NL)
         IN  IF k = 0 THEN <<s>>
             ELSE <<SubSeq(s, 1, k)>> \o SplitLines(SubSeq(s, k + 1, Len(s)))

RECURSIVE LStrip(_)
LStrip(s) == IF s # <<>> /\ Head(s) = SP THEN LStrip(Tail(s)) ELSE s

RECURSIVE RStripNL(_)
RStripNL(s) ==
    IF s # <<>> /\ s[Len(s)] = NL THEN RStripNL(SubSeq(s, 1, Len(s) - 1)) ELSE s

----------------------------------------------------------------------------
(* email.message_from_string, as parse_email uses it *)

StartsWith(s, p) == Len(s) >= Len(p) /\ SubSeq(s, 1, Len(p)) = p

\* feedparser.headerRE: a unix-from line, a "name:" line or a continuation
HeaderRE(line) ==
    \/ StartsWith(line, <<"From", SP>>)
    \/ StartsWith(line, <<SP>>)
    \/ LET k == Find(line, COLON)
       IN  k > 0 /\ \A j \in 1..(k - 1) : line[j] \notin {SP, NL}

\* the number of leading lines of lines[i..] that match headerRE
RECURSIVE CountHeaderLines(_, _)
CountHeaderLines(lines, i) ==
    IF i > Len(lines) \/ ~HeaderRE(lines[i]) THEN 0
    ELSE 1 + CountHeaderLines(lines, i + 1)

\* policy.compat32.header_source_parse: (name, value) of one header's lines
HeaderSourceParse(src) ==
    LET first == src[1]
        k == Find(first, COLON)
    IN  [name |-> SubSeq(first, 1, k - 1),
         value |-> RStripNL(LStrip(SubSeq(first, k + 1, Len(first)))
                            \o Concat(Tail(src)))]

Flush(last, hdrs) ==
    IF last = <<>> THEN hdrs ELSE Append(hdrs, HeaderSourceParse(last))

\* FeedParser._parse_headers over lines[i..]; last holds the source lines of
\* the header being collected.  Gives the headers and the line pushed back.
RECURSIVE ParseHeaders(_, _, _, _)
ParseHeaders(lines, i, last, hdrs) ==
    IF i > Len(lines) THEN [hdrs |-> Flush(last, hdrs), pushback |-> <<>>]
    ELSE LET line == lines[i]
         IN  IF Head(line) = SP
             THEN IF last = <<>>
                  THEN ParseHeaders(lines, i + 1, last, hdrs)
                  ELSE ParseHeaders(lines, i + 1, Append(last, line), hdrs)
             ELSE LET done == Flush(last, hdrs)
                  IN  IF StartsWith(line, <<"From", SP>>)
                      THEN IF i = 1
                           THEN ParseHeaders(lines, i + 1, <<>>, done)
                           ELSE IF i = Len(lines)
                           THEN [hdrs |-> done, pushback |-> <<line>>]
                           ELSE ParseHeaders(lines, i + 1, <<>>, done)
                      ELSE IF Find(line, COLON) = 1
                      THEN ParseHeaders(lines, i + 1, <<>>, done)
                      ELSE ParseHeaders(lines, i + 1, <<line>>, done)

\* Message.__getitem__: the first header of that name, None when there is none
RECURSIVE GetHeader(_, _)
GetHeader(hdrs, name) ==
    IF hdrs = <<>> THEN None
    ELSE IF Head(hdrs).name = name THEN Head(hdrs).value
    ELSE GetHeader(Tail(hdrs), name)

message_from_string(raw) ==
    LET lines == SplitLines(raw)
        n == CountHeaderLines(lines, 1)
        sep == n < Len(lines) /\ StartsWith(lines[n + 1], <<NL>>)
        skip == IF sep THEN n + 1 ELSE n
        ph == ParseHeaders(SubSeq(lines, 1, n), 1, <<>>, <<>>)
    IN  [hdrs |-> ph.hdrs,
         payload |-> Concat(ph.pushback \o SubSeq(lines, skip + 1, Len(lines)))]

\* datetime.now().isoformat()
Timestamps == {<<"t1">>, <<"t2">>}

parse_email(raw, now) ==
    LET msg == message_from_string(raw)
    IN  [from |-> GetHeader(msg.hdrs, <<"From">>),
         to |-> GetHeader(msg.hdrs, <<"To">>),
         subject |-> GetHeader(msg.hdrs, <<"Subject">>),
         body |-> msg.payload,
         timestamp |-> now]

----------------------------------------------------------------------------
(* The values the email router handles *)

NoEmail ==
    [from |-> Unbound, to |-> Unbound, subject |-> Unbound, body |-> Unbound,
     timestamp |-> Unbound]

\* a JSON object of the classification service: a key that is missing maps to
\* Absent, a key that is present maps to a text or to None (JSON null)
TargetValues ==
    {<<"gemini_knight">>, <<"user">>, <<"lumo_architect">>,
     <<"unknown_target">>, None}
ActionValues == {<<"heal">>}
Dicts == [target : TargetValues \cup {Absent}, action : ActionValues \cup {Absent}]
EmptyDict == [target |-> Absent, action |-> Absent]

\* what response.json() can give: a dict, or JSON that is no dict (a list)
JsonValues == {[kind |-> "dict", d |-> d] : d \in Dicts}
                  \cup {[kind |-> "list", d |-> EmptyDict]}
NoRouting == [kind |-> "unbound", d |-> EmptyDict]

\* a response body is JSON text or text that is no JSON
Bodies == JsonValues \cup {[kind |-> "text", d |-> EmptyDict]}
Responses == [status_code : {200, 500}, body : Bodies]
NoResponse == [status_code |-> 0, body |-> [kind |-> "unbound", d |-> EmptyDict]]

NoResult == [status |-> Unbound, target |-> Unbound]

\* dict.get(key): None when the key is missing
DictGet(d, key) == IF d[key] = Absent THEN None ELSE d[key]

\* the builtin input(): one line of standard input without its terminator;
\* EOFError when standard input is at its end
input(text) ==
    IF text = <<>> THEN [raised |-> "EOFError", value |-> Unbound]
    ELSE LET k == Find(text, NL)
         IN  [raised |-> NoError,
              value |-> IF k = 0 THEN text ELSE SubSeq(text, 1, k - 1)]

----------------------------------------------------------------------------
(* classify_email *)

\* faulty variant: only the first line of the body is embedded
PromptFirstLine(email) ==
    LET body == Str(email["body"])
        k == Find(body, NL)
    IN  <<"From", COLON, SP>> \o Str(email["from"]) \o <<NL>>
        \o <<"Subject", COLON, SP>> \o Str(email["subject"]) \o <<NL>>
        \o <<"Body", COLON, SP>> \o (IF k = 0 THEN body ELSE SubSeq(body, 1, k - 1))
        \o <<NL, NL>> \o <<"Classify and route this email.">>

Prompt(email) ==
    <<"From", COLON, SP>> \o Str(email["from"]) \o <<NL>>
    \o <<"Subject", COLON, SP>> \o Str(email["subject"]) \o <<NL>>
    \o <<"Body", COLON, SP>> \o Str(email["body"]) \o <<NL, NL>>
    \o <<"Classify and route this email.">>

PostRequest(email) ==
    [method |-> "POST",
     url |-> "generativelanguage.googleapis.com/v1beta/models/gemini-3-flash-preview:generateContent",
     headers |-> [ContentType |-> "application/json"],
     json |-> [contents |-> <<[parts |-> <<[text |-> Prompt(email)]>>]>>],
     params |-> [key |-> "GOOGLE_AI_STUDIO_API_KEY"]]

\* response.json(): the decoded body, JSONDecodeError when it is no JSON
ResponseJson(resp) ==
    IF resp.body.kind = "text"
    THEN [raised |-> "JSONDecodeError", value |-> NoRouting]
    ELSE [raised |-> NoError, value |-> resp.body]

----------------------------------------------------------------------------
(* store_routing_decision and execute_action *)

\* faulty variant: the target is read with dict.get, as execute_action reads it
store_routing_decision_get(email, rt) ==
    IF rt.kind # "dict" THEN [raised |-> "AttributeError", prints |-> <<>>]
    ELSE [raised |-> NoError,
          prints |-> << <<"[LEDGER]", SP>> \o Str(email["from"])
                        \o <<SP, "->", SP>> \o Str(DictGet(rt.d, "target")) >>]

store_routing_decision(email, rt) ==
    IF rt.kind # "dict" THEN [raised |-> "TypeError", prints |-> <<>>]
    ELSE IF rt.d["target"] = Absent THEN [raised |-> "KeyError", prints |-> <<>>]
    ELSE [raised |-> NoError,
          prints |-> << <<"[LEDGER]", SP>> \o Str(email["from"])
                        \o <<SP, "->", SP>> \o Str(rt.d["target"]) >>]

\* faulty variant: the user and lumo_architect branches are exchanged
execute_action_swapped(rt, email) ==
    IF rt.kind # "dict"
    THEN [raised |-> "AttributeError", prints |-> <<>>, value |-> NoResult]
    ELSE LET target == DictGet(rt.d, "target")
             action == DictGet(rt.d, "action")
         IN  [raised |-> NoError,
              prints |->
                  IF target = <<"gemini_knight">>
                  THEN << <<"[ACTION]", "Routing to Gemini Knight: ">> \o Str(action) >>
                  ELSE IF target = <<"lumo_architect">>
                  THEN << <<"[ACTION]", "Sending summary to user">> >>
                  ELSE IF target = <<"user">>
                  THEN << <<"[ACTION]", "Querying Lumo for constraints">> >>
                  ELSE <<>>,
              value |-> [status |-> <<"executed">>, target |-> target]]

\* faulty variant: a target outside the table is reported as failed
execute_action_strict(rt, email) ==
    IF rt.kind # "dict"
    THEN [raised |-> "AttributeError", prints |-> <<>>, value |-> NoResult]
    ELSE LET target == DictGet(rt.d, "target")
             action == DictGet(rt.d, "action")
             known == target \in {<<"gemini_knight">>, <<"user">>, <<"lumo_architect">>}
         IN  [raised |-> NoError,
              prints |->
                  IF target = <<"gemini_knight">>
                  THEN << <<"[ACTION]", "Routing to Gemini Knight: ">> \o Str(action) >>
                  ELSE IF target = <<"user">>
                  THEN << <<"[ACTION]", "Sending summary to user">> >>
                  ELSE IF target = <<"lumo_architect">>
                  THEN << <<"[ACTION]", "Querying Lumo for constraints">> >>
                  ELSE <<>>,
              value |-> [status |-> IF known THEN <<"executed">> ELSE <<"failed">>,
                         target |-> target]]

execute_action(rt, email) ==
    IF rt.kind # "dict"
    THEN [raised |-> "AttributeError", prints |-> <<>>, value |-> NoResult]
    ELSE LET target == DictGet(rt.d, "target")
             action == DictGet(rt.d, "action")
         IN  [raised |-> NoError,
              prints |->
                  IF target = <<"gemini_knight">>
                  THEN << <<"[ACTION]", "Routing to Gemini Knight: ">> \o Str(action) >>
                  ELSE IF target = <<"user">>
                  THEN << <<"[ACTION]", "Sending summary to user">> >>
                  ELSE IF target = <<"lumo_architect">>
                  THEN << <<"[ACTION]", "Querying Lumo for constraints">> >>
                  ELSE <<>>,
              value |-> [status |-> <<"executed">>, target |-> target]]

\* json.dumps of the result dict
JsonText(v) == IF v = None THEN <<"null">> ELSE <<"\"">> \o v \o <<"\"">>
JsonDumps(res) ==
    <<"{", "\"status\": ">> \o JsonText(res.status)
    \o <<", ", "\"target\": ">> \o JsonText(res.target) \o <<"}">>

----------------------------------------------------------------------------
(* The main block of email-router.py *)

Crash(exc) == /\ pc' = "crashed"
              /\ error' = exc

Input ==
    /\ pc = "start"
    /\ LET r == input(stdin)
       IN  IF r.raised # NoError
           THEN /\ Crash(r.raised)
                /\ UNCHANGED raw_email
           ELSE /\ raw_email' = r.value
                /\ pc' = "parse"
                /\ UNCHANGED error
    /\ UNCHANGED <<stdin, email_data, request, response, routing, result,
                   stdout, stages, inv, agents, calls>>

ParseEmail ==
    /\ pc = "parse"
    /\ \E now \in Timestamps : email_data' = parse_email(raw_email, now)
    /\ stages' = Append(stages, "parse_email")
    /\ pc' = "classify"
    /\ UNCHANGED <<stdin, raw_email, request, response, routing, result,
                   stdout, error, inv, agents, calls>>

\* faulty variant: the POST is issued a second time
ClassifyPostTwice ==
    /\ pc = "classify"
    /\ stages' = Append(stages, "classify_email")
    /\ request' = request \o <<PostRequest(email_data), PostRequest(email_data)>>
    /\ \/ /\ Crash("ConnectionError")
          /\ UNCHANGED response
       \/ /\ \E resp \in Responses : response' = resp
          /\ pc' = "classify_json"
          /\ UNCHANGED error
    /\ UNCHANGED <<stdin, raw_email, email_data, routing, result, stdout, inv, agents, calls>>

\* classify_email up to the return of requests.post
ClassifyPost ==
    /\ pc = "classify"
    /\ stages' = Append(stages, "classify_email")
    /\ request' = Append(request, PostRequest(email_data))
    /\ \/ /\ Crash("ConnectionError")
          /\ UNCHANGED response
       \/ /\ \E resp \in Responses : response' = resp
          /\ pc' = "classify_json"
          /\ UNCHANGED error
    /\ UNCHANGED <<stdin, raw_email, email_data, routing, result, stdout, inv, agents, calls>>

\* faulty variant: a body that is no JSON makes the main block classify again
ClassifyJsonRetry ==
    /\ pc = "classify_json"
    /\ LET r == ResponseJson(response)
       IN  IF r.raised # NoError
           THEN /\ pc' = "classify"
                /\ UNCHANGED <<routing, error>>
           ELSE /\ routing' = r.value
                /\ pc' = "ledger"
                /\ UNCHANGED error
    /\ UNCHANGED <<stdin, raw_email, email_data, request, response, result,
                   stdout, stages, inv, agents, calls>>

\* classify_email's return response.json(), assigned to routing
ClassifyJson ==
    /\ pc = "classify_json"
    /\ LET r == ResponseJson(response)
       IN  IF r.raised # NoError
           THEN /\ Crash(r.raised)
                /\ UNCHANGED routing
           ELSE /\ routing' = r.value
                /\ pc' = "ledger"
                /\ UNCHANGED error
    /\ UNCHANGED <<stdin, raw_email, email_data, request, response, result,
                   stdout, stages, inv, agents, calls>>

StoreRoutingDecision ==
    /\ pc = "ledger"
    /\ stages' = Append(stages, "store_routing_decision")
    /\ LET r == store_routing_decision(email_data, routing)
       IN  /\ stdout' = stdout \o r.prints
           /\ IF r.raised # NoError
              THEN Crash(r.raised)
              ELSE pc' = "dispatch" /\ UNCHANGED error
    /\ UNCHANGED <<stdin, raw_email, email_data, request, response, routing,
                   result, inv, agents, calls>>

ExecuteAction ==
    /\ pc = "dispatch"
    /\ stages' = Append(stages, "execute_action")
    /\ LET r == execute_action(routing, email_data)
       IN  /\ stdout' = stdout \o r.prints
           /\ IF r.raised # NoError
              THEN Crash(r.raised) /\ UNCHANGED result
              ELSE /\ result' = r.value
                   /\ pc' = "print"
                   /\ UNCHANGED error
    /\ UNCHANGED <<stdin, raw_email, email_data, request, response, routing, inv, agents, calls>>

PrintResult ==
    /\ pc = "print"
    /\ stages' = Append(stages, "print")
    /\ stdout' = Append(stdout, JsonDumps(result))
    /\ pc' = "done"
    /\ UNCHANGED <<stdin, raw_email, email_data, request, response, routing,
                   result, error, inv, agents, calls>>

----------------------------------------------------------------------------
(* The agent entrypoint of agent.py *)

Invocations == 1..MaxInvocations

Prompts == {<<"p1">>, <<"p2">>}
Payloads == [prompt : Prompts \cup {Absent}]

\* payload.get("prompt", "Hello!")
UserMessage(payload) ==
    IF payload["prompt"] = Absent THEN <<"Hello!">> ELSE payload["prompt"]

\* faulty variant: one Agent object, constructed once and used by every invocation
SharedAgent(heap) ==
    [id |-> 1, heap |-> IF heap = <<>> THEN <<<<>>>> ELSE heap]

\* Agent(model=..., tools=[...]): a new object with no messages
NewAgent(heap) == [id |-> Len(heap) + 1, heap |-> Append(heap, <<>>)]

\* the hosted model answers the conversation it is sent
ModelReply(messages) == <<"reply to">> \o Concat(messages)

IdleInvocation ==
    [pc |-> "idle", payload |-> [prompt |-> Absent], user_message |-> Unbound,
     agent |-> 0, returned |-> [response |-> Unbound]]

\* invoke from its entry to the suspension of agent.invoke_async in the model call
InvokeStart(i) ==
    /\ inv[i].pc = "idle"
    /\ \E payload \in Payloads :
          LET user_message == UserMessage(payload)
              made == NewAgent(agents)
              sent == Append(made.heap[made.id], user_message)
          IN  /\ agents' = [made.heap EXCEPT ![made.id] = sent]
              /\ calls' = Append(calls, [by |-> i, agent |-> made.id, messages |-> sent])
              /\ inv' = [inv EXCEPT ![i] = [pc |-> "awaiting", payload |-> payload,
                                            user_message |-> user_message,
                                            agent |-> made.id,
                                            returned |-> [response |-> Unbound]]]
    /\ UNCHANGED routerVars

\* the model call completes: invoke_async returns and invoke returns its dict
InvokeResume(i) ==
    /\ inv[i].pc = "awaiting"
    /\ LET a == inv[i].agent
           message == ModelReply(agents[a])
       IN  /\ agents' = [agents EXCEPT ![a] = Append(@, message)]
           /\ inv' = [inv EXCEPT ![i].pc = "done",
                                 ![i].returned = [response |-> Str(message)]]
    /\ UNCHANGED calls
    /\ UNCHANGED routerVars

----------------------------------------------------------------------------
(* Inputs *)

LinesUpTo(S, n) == UNION {[1..k -> S] : k \in 0..n}

\* the lines joined into one text, the last one with or without its terminator
RECURSIVE Join(_, _)
Join(ls, finalNL) ==
    IF ls = <<>> THEN <<>>
    ELSE IF Len(ls) = 1 THEN Head(ls) \o (IF finalNL THEN <<NL>> ELSE <<>>)
    ELSE Head(ls) \o <<NL>> \o Join(Tail(ls), finalNL)

Texts(S, n) == {Join(ls, b) : ls \in LinesUpTo(S, n), b \in BOOLEAN}

StdinLines ==
    {<<"From", COLON, SP, "a">>, <<"Subject", COLON, SP, "b">>, <<>>, <<"b">>}

RawLines ==
    StdinLines \cup {<<"To", COLON, "a">>, <<SP, "b">>, <<"From", COLON>>,
                     <<COLON, "a">>}

FieldValues == {None, <<>>, <<"a">>, <<"b", NL, "a">>}
EmailRecords ==
    [from : FieldValues, to : {None}, subject : FieldValues, body : FieldValues,
     timestamp : {<<"t1">>}]

AgentIdle ==
    /\ inv = [i \in Invocations |-> IdleInvocation]
    /\ agents = <<>>
    /\ calls = <<>>

----------------------------------------------------------------------------
(* Specifications *)

\* the main block at position at, with these values bound and nothing printed
RouterAt(at, text, raw, email, rt) ==
    /\ stdin = text
    /\ pc = at
    /\ raw_email = raw
    /\ email_data = email
    /\ request = <<>>
    /\ response = NoResponse
    /\ routing = rt
    /\ result = NoResult
    /\ stdout = <<>>
    /\ error = NoError
    /\ stages = <<>>

\* one run of the email-router process
Init ==
    /\ \E text \in Texts(StdinLines, MaxStdinLines) :
          RouterAt("start", text, Unbound, NoEmail, NoRouting)
    /\ AgentIdle

Next ==
    \/ Input
    \/ ParseEmail
    \/ ClassifyPost
    \/ ClassifyJson
    \/ StoreRoutingDecision
    \/ ExecuteAction
    \/ PrintResult

Spec == Init /\ [][Next]_vars

\* parse_email applied to any raw text
InitParse ==
    /\ \E raw \in Texts(RawLines, MaxLines) :
          RouterAt("parse", <<>>, raw, NoEmail, NoRouting)
    /\ AgentIdle

SpecParse == InitParse /\ [][ParseEmail]_vars

\* classify_email applied to any email record
InitClassify ==
    /\ \E email \in EmailRecords :
          RouterAt("classify", <<>>, Unbound, email, NoRouting)
    /\ AgentIdle

SpecClassify == InitClassify /\ [][ClassifyPost \/ ClassifyJson]_vars

\* execute_action applied to any routing decision
InitDispatch ==
    /\ \E email \in EmailRecords, d \in Dicts :
          RouterAt("dispatch", <<>>, Unbound, email, [kind |-> "dict", d |-> d])
    /\ AgentIdle

SpecDispatch == InitDispatch /\ [][ExecuteAction]_vars

\* invocations of the agent entrypoint, interleaved at their await
InitAgent ==
    /\ RouterAt("idle", <<>>, Unbound, NoEmail, NoRouting)
    /\ AgentIdle

NextAgent == \E i \in Invocations : InvokeStart(i) \/ InvokeResume(i)

SpecAgent == InitAgent /\ [][NextAgent]_vars

----------------------------------------------------------------------------
(* Properties *)

Pipeline ==
    <<"parse_email", "classify_email", "store_routing_decision",
      "execute_action", "print">>

Count(seq, x) == Cardinality({k \in 1..Len(seq) : seq[k] = x})

IsPrefix(p, s) == Len(p) <= Len(s) /\ SubSeq(s, 1, Len(p)) = p

Ended == pc \in {"done", "crashed"}

KnownTargets == {<<"gemini_knight">>, <<"user">>, <<"lumo_architect">>}

C2_LinearOrder ==
    /\ IsPrefix(stages, Pipeline)
    /\ Len(request) = (IF Len(stages) >= 2 THEN 1 ELSE 0)
    /\ \A k \in 1..Len(request) : request[k].method = "POST"
    /\ pc = "done" <=> stages = Pipeline
    /\ pc = "classify" => stages = SubSeq(Pipeline, 1, 1)
    /\ pc \in {"classify_json", "ledger"} => stages = SubSeq(Pipeline, 1, 2)
    /\ pc = "dispatch" => stages = SubSeq(Pipeline, 1, 3)
    /\ pc = "print" => stages = SubSeq(Pipeline, 1, 4)

C2_Witness ==
    /\ pc = "done"
    /\ stages = Pipeline
    /\ Len(request) = 1
    /\ Len(stdout) = 3

\* C3: when the classification call fails, by a network failure or by a
\* response whose status is not 2xx, classify_email raises: the process ends
\* there with no routing decision, no ledger line, no action and no result.
C3_FailurePropagates ==
    LET failed == \/ error = "ConnectionError"
                  \/ /\ response # NoResponse
                     /\ response.status_code \notin 200..299
                     /\ pc # "classify_json"
    IN  failed =>
            /\ pc = "crashed"
            /\ stages = SubSeq(Pipeline, 1, 2)
            /\ routing = NoRouting
            /\ result = NoResult
            /\ stdout = <<>>

\* the action line the dispatch table assigns to a target
TableAction(d) ==
    IF d["target"] = <<"gemini_knight">>
    THEN <<"[ACTION]", "Routing to Gemini Knight: ">>
         \o (IF d["action"] = Absent THEN <<"N", "o", "n", "e">> ELSE d["action"])
    ELSE IF d["target"] = <<"user">> THEN <<"[ACTION]", "Sending summary to user">>
    ELSE <<"[ACTION]", "Querying Lumo for constraints">>

\* C4: for a target of the dispatch table, execute_action prints exactly the
\* one action line of that target (the action string forwarded for
\* gemini_knight) and returns status executed with the same target.
C4_TableDispatch ==
    (pc # "dispatch" /\ routing.d["target"] \in KnownTargets) =>
        /\ pc = "print"
        /\ stdout = <<TableAction(routing.d)>>
        /\ result = [status |-> <<"executed">>, target |-> routing.d["target"]]

C4_Witness ==
    /\ pc = "print"
    /\ routing.d["target"] = <<"gemini_knight">>
    /\ routing.d["action"] = <<"heal">>
    /\ stdout = << <<"[ACTION]", "Routing to Gemini Knight: ", "heal">> >>

\* C5: execute_action never raises and never reports failed: it returns
\* status executed with the target it was given (None for a missing one), and
\* for a target outside the dispatch table it prints no action.
C5_SilentSuccess ==
    pc # "dispatch" =>
        /\ pc = "print"
        /\ error = NoError
        /\ result.status = <<"executed">>
        /\ result.target = (IF routing.d["target"] = Absent THEN None
                            ELSE routing.d["target"])
        /\ routing.d["target"] \notin KnownTargets => stdout = <<>>

C5_Witness ==
    /\ pc = "print"
    /\ routing.d["target"] = Absent
    /\ result = [status |-> <<"executed">>, target |-> None]
    /\ stdout = <<>>

\* the raw text has no line that starts with this header name and a colon
HeaderMissing(raw, name) ==
    \A k \in 1..Len(SplitLines(raw)) :
        ~StartsWith(SplitLines(raw)[k], name \o <<COLON>>)

\* C6: parse_email gives the empty string, never None, for a header that the
\* raw text does not have, and fills the body and the timestamp.
C6_EmptyStringFallback ==
    pc = "classify" =>
        /\ HeaderMissing(raw_email, <<"From">>) => email_data["from"] = <<>>
        /\ HeaderMissing(raw_email, <<"To">>) => email_data["to"] = <<>>
        /\ HeaderMissing(raw_email, <<"Subject">>) => email_data["subject"] = <<>>
        /\ email_data["body"] \notin {None, Unbound}
        /\ email_data["timestamp"] \in Timestamps

\* a header line of a well-formed email: a known name, a colon, a value
FieldLine(line, name) ==
    /\ StartsWith(line, name \o <<COLON>>)
    /\ LStrip(RStripNL(SubSeq(line, Len(name) + 2, Len(line)))) # <<>>

\* the index of the blank line that ends the headers, one past the last line
\* when there is none
SeparatorAt(lines) ==
    IF \E k \in 1..Len(lines) : lines[k] = <<NL>>
    THEN CHOOSE k \in 1..Len(lines) :
             lines[k] = <<NL>> /\ \A j \in 1..(k - 1) : lines[j] # <<NL>>
    ELSE Len(lines) + 1

\* header lines, a blank line, a body; From and Subject among the headers
WellFormedEmail(text) ==
    LET lines == SplitLines(text)
        n == SeparatorAt(lines)
    IN  /\ \A k \in 1..(n - 1) :
              \E name \in {<<"From">>, <<"To">>, <<"Subject">>} :
                  FieldLine(lines[k], name)
        /\ \E k \in 1..(n - 1) : FieldLine(lines[k], <<"From">>)
        /\ \E k \in 1..(n - 1) : FieldLine(lines[k], <<"Subject">>)

MessageBody(text) ==
    LET lines == SplitLines(text)
    IN  Concat(SubSeq(lines, SeparatorAt(lines) + 1, Len(lines)))

\* C7: for a well-formed email on standard input with From and Subject
\* headers, the record handed to the classifier has a non-empty sender, a
\* non-empty subject and the email's body verbatim.
C7_StdinParsedWhole ==
    (Len(stages) >= 2 /\ WellFormedEmail(stdin)) =>
        /\ email_data["from"] \notin {None, <<>>}
        /\ email_data["subject"] \notin {None, <<>>}
        /\ email_data["body"] = MessageBody(stdin)

\* C8: the prompt of the one request classify_email issues contains the
\* record's sender, subject and body, each as str() renders it (a text
\* verbatim), as a contiguous run; the request body is one contents element
\* with one part, whose text is that prompt.
C8_PromptVerbatim ==
    pc # "classify" =>
        /\ Len(request) = 1
        /\ DOMAIN request[1].json = {"contents"}
        /\ Len(request[1].json.contents) = 1
        /\ DOMAIN request[1].json.contents[1] = {"parts"}
        /\ Len(request[1].json.contents[1].parts) = 1
        /\ DOMAIN request[1].json.contents[1].parts[1] = {"text"}
        /\ \A f \in {"from", "subject", "body"} :
              IsSubstring(Str(email_data[f]), request[1].json.contents[1].parts[1].text)

C8_Witness ==
    /\ pc = "classify_json"
    /\ email_data["from"] = <<"a">>
    /\ email_data["subject"] = <<"b", NL, "a">>
    /\ email_data["body"] = <<"b", NL, "a">>
    /\ Len(request) = 1

CallsBy(i) == {k \in 1..Len(calls) : calls[k].by = i}

\* C9: every started invocation has its own Agent, has made exactly one model
\* call, with its own prompt (Hello! when the payload has none) as the only
\* message, and a finished one returns the reply to that one message; an
\* invocation that has not started has made no call.
C9_InvocationsIsolated ==
    \A i \in Invocations :
        LET me == inv[i]
            prompt == IF me.payload["prompt"] = Absent THEN <<"Hello!">>
                      ELSE me.payload["prompt"]
        IN  /\ me.pc = "idle" => CallsBy(i) = {}
            /\ me.pc # "idle" =>
                  /\ Cardinality(CallsBy(i)) = 1
                  /\ \A k \in CallsBy(i) :
                        calls[k].agent = me.agent /\ calls[k].messages = <<prompt>>
                  /\ me.user_message = prompt
                  /\ \A j \in Invocations \ {i} :
                        inv[j].pc # "idle" => inv[j].agent # me.agent
                  /\ agents[me.agent] =
                        IF me.pc = "awaiting" THEN <<prompt>>
                        ELSE <<prompt, <<"reply to">> \o prompt>>
            /\ me.pc = "done" <=> me.returned # [response |-> Unbound]
            /\ me.pc = "done" => me.returned = [response |-> <<"reply to">> \o prompt]

\* two invocations suspended in their model calls at once, the later one
\* finished first, with different prompts
C9_Witness ==
    /\ Len(calls) >= 2
    /\ calls[1].by = 2
    /\ calls[2].by = 1
    /\ inv[1].pc = "done"
    /\ inv[2].pc = "awaiting"
    /\ inv[1].payload["prompt"] = Absent
    /\ inv[2].payload["prompt"] = <<"p2">>

\* C10: when the classifier's JSON object has no target, the process ends in
\* store_routing_decision with a KeyError: execute_action is not entered and
\* nothing is printed; execute_action applied to the same object raises
\* nothing and returns status executed with target None.
C10_LedgerRequiresTarget ==
    (routing.kind = "dict" /\ routing.d["target"] = Absent /\ pc # "ledger") =>
        /\ pc = "crashed"
        /\ error = "KeyError"
        /\ stages = SubSeq(Pipeline, 1, 3)
        /\ result = NoResult
        /\ stdout = <<>>
        /\ execute_action(routing, email_data) =
              [raised |-> NoError, prints |-> <<>>,
               value |-> [status |-> <<"executed">>, target |-> None]]

C10_Witness ==
    /\ pc = "crashed"
    /\ error = "KeyError"
    /\ routing.kind = "dict"
    /\ routing.d["target"] = Absent
    /\ routing.d["action"] = <<"heal">>

====
